---- MODULE Spec2Model ----
(***************************************************************************)
(* Model of the bench_helper crate: the bench_main driver and bench_group  *)
(* (rust/bench_helper/src/lib.rs), the allocation measurement              *)
(* (rust/bench_helper/src/alloc.rs) and the hardware-counter measurement   *)
(* (rust/bench_helper/src/perf.rs), driven by the benchmark targets of     *)
(* rust/parquet/benches/reader.rs.                                         *)
(***************************************************************************)
EXTENDS Integers, Sequences, FiniteSets, TLC

\* ------------------------------------------------------------------ bounds
\* Groups passed to bench_main!, targets given to bench_group!.
NumGroups == 1
NumTargets == 2
\* Intervals (start/end pairs) the engine runs inside one target call.
MaxIters == 1
\* Allocator events and counter ticks that occur during one run.
MaxEvents == 2
\* The greatest interval result, the longest batch of values and the greatest
\* throughput handed to a measurement used on its own.
MaxValue == 2
MaxBatch == 2
MaxThroughput == 2
\* The most groups a benchmark passes to bench_main!.
MaxGroups == 2

\* usize and u64 are 64 bits wide on the x86_64 target; an f64 carries 53
\* significant bits; 2^-14 < 0.0001 < 2^-13.
UsizeBits == 64
F64MantissaBits == 53
EpsilonExp == -14

Targets == 1..NumTargets

\* --------------------------------------------------------------- constants
\* A hook call that returned nothing (the call panicked, or was never made).
NoValue == -1

NoInst == [kind |-> "None"]

ZeroStats == [allocations |-> 0, deallocations |-> 0, reallocations |-> 0]

EventKinds == {"allocations", "deallocations", "reallocations"}

\* The measurements of bench_main's main(), in program order.  name is the
\* string literal handed to every group, bound the variable the let / if let
\* binds, arg the variable handed to the groups, sel the sub-measure
\* (Alloc) or the units label (Perf).
DriverTable ==
  << [name |-> "wall_time", bound |-> "wall_time", arg |-> "wall_time",
      kind |-> "WallTime", sel |-> "WallTime"],
     [name |-> "allocs", bound |-> "allocs", arg |-> "allocs",
      kind |-> "Alloc", sel |-> "Allocations"],
     [name |-> "reallocs", bound |-> "reallocs", arg |-> "reallocs",
      kind |-> "Alloc", sel |-> "Reallocations"],
     [name |-> "cpu_cycles", bound |-> "cpu_cycles", arg |-> "cpu_cycles",
      kind |-> "Perf", sel |-> "cycles"],
     [name |-> "stalled_fe_cycles", bound |-> "stalled_cpu_cycles",
      arg |-> "stalled_cpu_cycles",
      kind |-> "Perf", sel |-> "stalled_fe_cycles"],
     [name |-> "stalled_be_cycles", bound |-> "stalled_cpu_cycles",
      arg |-> "stalled_be_cycles",
      kind |-> "Perf", sel |-> "stalled_be_cycles"],
     [name |-> "cache_misses", bound |-> "cache_misses", arg |-> "cache_misses",
      kind |-> "Perf", sel |-> "cache misses"],
     [name |-> "branch_misses", bound |-> "branch_misses",
      arg |-> "branch_misses",
      kind |-> "Perf", sel |-> "branch misses"] >>

Steps == 1..Len(DriverTable)
LastStep == Len(DriverTable)
HwSteps == {k \in Steps : DriverTable[k].kind = "Perf"}
FirstHw == CHOOSE k \in HwSteps : \A j \in HwSteps : k <= j

\* The variable handed to the groups of step k names the instance that step
\* bound.  Where it names nothing (stalled_be_cycles, lib.rs:174-175) no
\* instance reaches the groups of that step and none of them is called.
Resolves(k) == DriverTable[k].arg = DriverTable[k].bound

VARIABLES
  pc,          \* driver position
  mi,          \* step of DriverTable the driver is at
  gi,          \* group being called
  ti,          \* target being called
  iters,       \* intervals completed inside the current target call
  supported,   \* cfg!(all(target_arch = "x86_64", target_os = "linux"))
  stats,       \* cumulative counters of the instrumented global allocator
  inst,        \* the live measurement instance
  intermediate,\* the value start returned, held by the engine until end
  nEvents,     \* events that have occurred
  panic,       \* "none", or the message of the expect that failed
  \* history
  constructed, \* per step: "none", "ok", "unavailable"
  attempts,    \* per step: constructions attempted
  invoked,     \* the target invocations, in order
  summaries,   \* final_summary calls
  lastCall,    \* the most recent hook call on the live instance: the hook,
               \* what it returned, the counter operations it made, the
               \* intermediate it was given, the relevant events of its interval
  lastEnd,     \* the previous end on the live instance, and events since
  nStart,      \* start calls on the live instance
  nEnd,        \* end calls entered on the live instance
  ivEvents,    \* relevant events in the open interval of the live instance
  failedOp,    \* the counter operation the OS failed, "none" if none
  groups,      \* the number of groups passed to bench_main!
  \* a measurement used on its own, outside a run of main()
  fself,       \* the instance
  fcall        \* the last operation applied to it: its name, inputs, result

vars == << pc, mi, gi, ti, iters, supported, stats, inst, intermediate,
           nEvents, panic, constructed, attempts, invoked, summaries,
           lastCall, lastEnd, nStart, nEnd, ivEvents, failedOp,
           groups, fself, fcall >>

\* What a run of main() leaves alone.
aloneVars == << groups, fself, fcall >>

Groups == 1..groups

NoFn == [op |-> "none", made |-> 0, at |-> 0, panic |-> "none"]

NoCall == [hook |-> "none", ret |-> NoValue, ops |-> << >>, arg |-> NoValue,
           events |-> 0]
NoEnd == [ret |-> NoValue, allocations |-> 0, deallocations |-> 0]

Init ==
  /\ pc = "construct"
  /\ mi = 1
  /\ gi = 1
  /\ ti = 1
  /\ iters = 0
  /\ supported \in BOOLEAN
  /\ stats = ZeroStats
  /\ inst = NoInst
  /\ intermediate = NoValue
  /\ nEvents = 0
  /\ panic = "none"
  /\ constructed = [k \in Steps |-> "none"]
  /\ attempts = [k \in Steps |-> 0]
  /\ invoked = << >>
  /\ summaries = 0
  /\ lastCall = NoCall
  /\ lastEnd = NoEnd
  /\ nStart = 0
  /\ nEnd = 0
  /\ ivEvents = 0
  /\ failedOp = "none"
  /\ groups = NumGroups
  /\ fself = NoInst
  /\ fcall = NoFn

\* The same start, for a benchmark that passes any number of groups to
\* bench_main!.
InitGroups ==
  /\ pc = "construct"
  /\ mi = 1
  /\ gi = 1
  /\ ti = 1
  /\ iters = 0
  /\ supported \in BOOLEAN
  /\ stats = ZeroStats
  /\ inst = NoInst
  /\ intermediate = NoValue
  /\ nEvents = 0
  /\ panic = "none"
  /\ constructed = [k \in Steps |-> "none"]
  /\ attempts = [k \in Steps |-> 0]
  /\ invoked = << >>
  /\ summaries = 0
  /\ lastCall = NoCall
  /\ lastEnd = NoEnd
  /\ nStart = 0
  /\ nEnd = 0
  /\ ivEvents = 0
  /\ failedOp = "none"
  /\ groups \in 1..MaxGroups
  /\ fself = NoInst
  /\ fcall = NoFn


\* ------------------------------------------------- allocation measurement
\* Faulty variant of RegionNew: the baseline is the counters at process
\* start.
RegionNew_FromZero(cur) == [initial_stats |-> ZeroStats]

\* stats_alloc's Region: the allocator's counters when the region was made.
RegionNew(cur) == [initial_stats |-> cur]

\* Region::change: the allocator's counters now, less those of the baseline.
RegionChange(region, cur) ==
  [allocations |-> cur.allocations - region.initial_stats.allocations,
   deallocations |-> cur.deallocations - region.initial_stats.deallocations,
   reallocations |-> cur.reallocations - region.initial_stats.reallocations]

\* Faulty variant of SelectStat: the Allocations and Deallocations arms are
\* exchanged.
SelectStat_ArmsExchanged(sub_measure, st) ==
  CASE sub_measure = "Allocations" -> st.deallocations
    [] sub_measure = "Deallocations" -> st.allocations
    [] sub_measure = "Reallocations" -> st.reallocations

\* match self.sub_measure { ... => stats.<field> }
SelectStat(sub_measure, st) ==
  CASE sub_measure = "Allocations" -> st.allocations
    [] sub_measure = "Deallocations" -> st.deallocations
    [] sub_measure = "Reallocations" -> st.reallocations

\* The allocator counter an event of the given kind is relevant to.
SubMeasureOf(kind) ==
  CASE kind = "allocations" -> "Allocations"
    [] kind = "deallocations" -> "Deallocations"
    [] kind = "reallocations" -> "Reallocations"

AllocNew(cur, sub_measure) ==
  [kind |-> "Alloc", sub_measure |-> sub_measure, region |-> RegionNew(cur)]

AllocStart(self, cur) ==
  SelectStat(self.sub_measure, RegionChange(self.region, cur))

\* Faulty variant of AllocEnd: the delta since the interval's start.
AllocEnd_SinceStart(self, i, cur) ==
  SelectStat(self.sub_measure, RegionChange(self.region, cur)) - i

AllocEnd(self, i, cur) ==
  SelectStat(self.sub_measure, RegionChange(self.region, cur))

\* ------------------------------------------- hardware-counter measurement
\* The kernel counter behind perfcnt's PerfCounter: built disabled, it
\* counts events only while enabled.
CounterNew == [enabled |-> FALSE, count |-> 0]
CounterStart(c) == [c EXCEPT !.enabled = TRUE]
CounterStop(c) == [c EXCEPT !.enabled = FALSE]
CounterRead(c) == c.count
CounterReset(c) == [c EXCEPT !.count = 0]
CounterTick(c) == IF c.enabled THEN [c EXCEPT !.count = c.count + 1] ELSE c

\* Perf::new / Perf::hardware: bound says whether the OS bound the counter.
\* The result is the instance (Some) or NoInst (None).
PerfNew(units, bound) ==
  IF bound
    THEN [kind |-> "Perf", units |-> units, counter |-> CounterNew]
    ELSE NoInst

Outcome(self, ret, ops, msg) ==
  [self |-> self, ret |-> ret, ops |-> ops, panic |-> msg]

\* Faulty variant of PerfStart: the result of the counter's start is dropped
\* instead of expected.
PerfStart_IgnoresFailure(self, fail) ==
  IF fail = "start"
    THEN Outcome(self, 0, <<"start">>, "none")
    ELSE Outcome([self EXCEPT !.counter = CounterStart(self.counter)],
                 0, <<"start">>, "none")

\* Faulty variant of PerfStart: the counter is not enabled.
PerfStart_NotArmed(self, fail) ==
  IF fail = "start"
    THEN Outcome(self, NoValue, <<"start">>, "Could not read perf counter")
    ELSE Outcome(self, 0, <<"start">>, "none")

\* Perf::start.  fail names the counter operation the OS fails, or "none".
PerfStart(self, fail) ==
  IF fail = "start"
    THEN Outcome(self, NoValue, <<"start">>, "Could not read perf counter")
    ELSE Outcome([self EXCEPT !.counter = CounterStart(self.counter)],
                 0, <<"start">>, "none")

\* Faulty variant of PerfEnd: the counter is reset before it is read.
PerfEnd_ResetBeforeRead(self, i, fail) ==
  LET stopped == [self EXCEPT !.counter = CounterStop(self.counter)]
      cleared == [stopped EXCEPT !.counter = CounterReset(stopped.counter)]
      ret == CounterRead(cleared.counter)
  IN  CASE fail = "stop" ->
             Outcome(self, NoValue, <<"stop">>, "Could not stop perf counter")
        [] fail = "reset" ->
             Outcome(stopped, NoValue, <<"stop", "reset">>,
                     "Could not reset perf counter")
        [] fail = "read" ->
             Outcome(cleared, NoValue, <<"stop", "reset", "read">>,
                     "Could not read perf counter")
        [] OTHER ->
             Outcome(cleared, ret, <<"stop", "reset", "read">>, "none")

\* Faulty variant of PerfEnd: the counter is not reset after it is read.
PerfEnd_NoReset(self, i, fail) ==
  LET stopped == [self EXCEPT !.counter = CounterStop(self.counter)]
      ret == CounterRead(stopped.counter)
  IN  CASE fail = "stop" ->
             Outcome(self, NoValue, <<"stop">>, "Could not stop perf counter")
        [] fail = "read" ->
             Outcome(stopped, NoValue, <<"stop", "read">>,
                     "Could not read perf counter")
        [] fail = "reset" ->
             Outcome(stopped, NoValue, <<"stop", "read", "reset">>,
                     "Could not reset perf counter")
        [] OTHER ->
             Outcome(stopped, ret, <<"stop", "read", "reset">>, "none")

\* Faulty variant of PerfEnd: a read that failed is tried once more.
PerfEnd_RetriesRead(self, i, fail) ==
  LET stopped == [self EXCEPT !.counter = CounterStop(self.counter)]
      ret == CounterRead(stopped.counter)
      cleared == [stopped EXCEPT !.counter = CounterReset(stopped.counter)]
  IN  CASE fail = "stop" ->
             Outcome(self, NoValue, <<"stop">>, "Could not stop perf counter")
        [] fail = "read" ->
             Outcome(stopped, NoValue, <<"stop", "read", "read">>,
                     "Could not read perf counter")
        [] fail = "reset" ->
             Outcome(stopped, NoValue, <<"stop", "read", "reset">>,
                     "Could not reset perf counter")
        [] OTHER ->
             Outcome(cleared, ret, <<"stop", "read", "reset">>, "none")

\* Perf::end.
PerfEnd(self, i, fail) ==
  LET stopped == [self EXCEPT !.counter = CounterStop(self.counter)]
      ret == CounterRead(stopped.counter)
      cleared == [stopped EXCEPT !.counter = CounterReset(stopped.counter)]
  IN  CASE fail = "stop" ->
             Outcome(self, NoValue, <<"stop">>, "Could not stop perf counter")
        [] fail = "read" ->
             Outcome(stopped, NoValue, <<"stop", "read">>,
                     "Could not read perf counter")
        [] fail = "reset" ->
             Outcome(stopped, NoValue, <<"stop", "read", "reset">>,
                     "Could not reset perf counter")
        [] OTHER ->
             Outcome(cleared, ret, <<"stop", "read", "reset">>, "none")

\* ------------------------------------------------------ wall-clock time
WallTimeNew == [kind |-> "WallTime"]

\* ------------------------------------- the Measurement trait's dispatch
\* The operations of the counter that can fail in each hook.
StartFails(self) == IF self.kind = "Perf" THEN {"none", "start"} ELSE {"none"}
EndFails(self) ==
  IF self.kind = "Perf" THEN {"none", "stop", "read", "reset"} ELSE {"none"}

\* Faulty variant of MeasurementStart: Alloc reads its region with
\* change_and_reset, which moves the baseline to the counters now.
MeasurementStart_Rebaseline(self, cur, fail) ==
  CASE self.kind = "Alloc" ->
         Outcome([self EXCEPT !.region = RegionNew(cur)],
                 AllocStart(self, cur), << >>, "none")
    [] self.kind = "Perf" -> PerfStart(self, fail)
    [] OTHER -> Outcome(self, 0, << >>, "none")

MeasurementStart(self, cur, fail) ==
  CASE self.kind = "Alloc" ->
         Outcome(self, AllocStart(self, cur), << >>, "none")
    [] self.kind = "Perf" -> PerfStart(self, fail)
    [] OTHER -> Outcome(self, 0, << >>, "none")

MeasurementEnd(self, i, cur, fail) ==
  CASE self.kind = "Alloc" ->
         Outcome(self, AllocEnd(self, i, cur), << >>, "none")
    [] self.kind = "Perf" -> PerfEnd(self, i, fail)
    [] OTHER -> Outcome(self, 0, << >>, "none")


\* ------------------------------------------------ values and their texts
\* Interval results (usize for Alloc, u64 for Perf) of the bounded range:
\* their sums stay far below 2^64, where v1 + v2 neither aborts nor wraps.
Values == 0..MaxValue

\* Throughput::Bytes(n) / Throughput::Elements(n)
Throughputs == [kind : {"Bytes", "Elements"}, n : 0..MaxThroughput]

\* &mut [f64]: the batches of values handed to the scale_* calls.
Batches == UNION {[1..len -> Values] : len \in 0..MaxBatch}

RECURSIVE GCD(_, _)
GCD(a, b) == IF b = 0 THEN a ELSE GCD(b, a % b)

\* value / (n as f64): the f64 quotient of two whole numbers, kept as num/den
\* in lowest terms; den = 0 is what IEEE division by zero gives (1/0 is inf,
\* 0/0 is NaN).
Quot(value, n) ==
  IF n = 0
    THEN [num |-> IF value = 0 THEN 0 ELSE 1, den |-> 0]
    ELSE LET g == GCD(value, n) IN [num |-> value \div g, den |-> n \div g]

\* "{:.4}": the number printed with four decimals, as a count of
\* ten-thousandths rounded to nearest, ties to even; "inf" and "NaN" are
\* printed as such.
Fixed4(q) ==
  IF q.den = 0
    THEN IF q.num = 0 THEN "NaN" ELSE "inf"
    ELSE LET scaled == q.num * 10000
             down == scaled \div q.den
             twice == 2 * (scaled % q.den)
         IN  IF twice > q.den \/ (twice = q.den /\ down % 2 = 1)
               THEN down + 1 ELSE down

\* The bit length of a count: 0 for the count 0, n for 2^(n-1) <= v < 2^n.
BitLengths == 0..UsizeBits

\* value as f64 + 0.0001 leaves value as f64 as it is when 0.0001 is below
\* half the spacing of the doubles at value: the spacing in the binade of
\* bit length n is 2^(n - F64MantissaBits), and 0.0001 lies between
\* 2^EpsilonExp and 2^(EpsilonExp + 1).
Absorbed(bits) == bits > 0 /\ bits - 1 - F64MantissaBits >= EpsilonExp + 1

\* A text is the sequence of its pieces.  Measure::name
MeasureName(sub_measure) ==
  CASE sub_measure = "Allocations" -> "allocations"
    [] sub_measure = "Deallocations" -> "deallocations"
    [] sub_measure = "Reallocations" -> "reallocations"

\* Measure::throughput_name
ThroughputName(sub_measure, throughput) ==
  CASE sub_measure = "Allocations" /\ throughput.kind = "Bytes" ->
         <<"allocations", "/byte">>
    [] sub_measure = "Deallocations" /\ throughput.kind = "Bytes" ->
         <<"deallocations", "/byte">>
    [] sub_measure = "Reallocations" /\ throughput.kind = "Bytes" ->
         <<"reallocations", "/byte">>
    [] sub_measure = "Allocations" /\ throughput.kind = "Elements" ->
         <<"allocations", "/element">>
    [] sub_measure = "Deallocations" /\ throughput.kind = "Elements" ->
         <<"deallocations", "/element">>
    [] sub_measure = "Reallocations" /\ throughput.kind = "Elements" ->
         <<"reallocations", "/element">>

\* ---------------------------------- Alloc: values and the ValueFormatter
\* Faulty variant of AllocAdd: the second operand is dropped.
AllocAdd_KeepsFirst(self, v1, v2) == v1

AllocAdd(self, v1, v2) == v1 + v2

AllocZero(self) == 0

\* Faulty variant of AllocToF64: the plain cast.
AllocToF64_PlainCast(self, bits) == [bits |-> bits, above |-> FALSE]

\* Alloc::to_f64 of a count of the given bit length: the double nearest to
\* the count (bits), and whether the result lies strictly above it.
AllocToF64(self, bits) == [bits |-> bits, above |-> ~Absorbed(bits)]

AllocFormatValue(self, value) ==
  [number |-> Fixed4(Quot(value, 1)),
   label |-> <<MeasureName(self.sub_measure)>>]

AllocFormatThroughput(self, throughput, value) ==
  CASE throughput.kind = "Bytes" ->
         [number |-> Fixed4(Quot(value, throughput.n)),
          label |-> <<MeasureName(self.sub_measure), "/byte">>]
    [] throughput.kind = "Elements" ->
         [number |-> Fixed4(Quot(value, throughput.n)),
          label |-> <<MeasureName(self.sub_measure), "/element">>]

AllocScaleValues(self, typical_value, values) ==
  [values |-> values, label |-> <<MeasureName(self.sub_measure)>>]

\* Faulty variant of AllocScaleThroughputs: the batch is left as it was.
AllocScaleThroughputs_Unscaled(self, typical_value, throughput, values) ==
  [values |-> [i \in DOMAIN values |-> Quot(values[i], 1)],
   label |-> ThroughputName(self.sub_measure, throughput)]

AllocScaleThroughputs(self, typical_value, throughput, values) ==
  CASE throughput.kind = "Bytes" ->
         [values |-> [i \in DOMAIN values |-> Quot(values[i], throughput.n)],
          label |-> ThroughputName(self.sub_measure, throughput)]
    [] throughput.kind = "Elements" ->
         [values |-> [i \in DOMAIN values |-> Quot(values[i], throughput.n)],
          label |-> ThroughputName(self.sub_measure, throughput)]

AllocScaleForMachines(self, values) ==
  [values |-> values, label |-> <<MeasureName(self.sub_measure)>>]

\* ----------------------------------- Perf: values and the ValueFormatter
PerfAdd(self, v1, v2) == v1 + v2

PerfZero(self) == 0

\* Perf::to_f64: the plain cast.
PerfToF64(self, bits) == [bits |-> bits, above |-> FALSE]

PerfFormatValue(self, value) ==
  [number |-> Fixed4(Quot(value, 1)), label |-> <<self.units>>]

PerfFormatThroughput(self, throughput, value) ==
  CASE throughput.kind = "Bytes" ->
         [number |-> Fixed4(Quot(value, throughput.n)),
          label |-> <<self.units, "/byte">>]
    [] throughput.kind = "Elements" ->
         [number |-> Fixed4(Quot(value, throughput.n)),
          label |-> <<self.units, "/element">>]

PerfScaleValues(self, typical_value, values) ==
  [values |-> values, label |-> <<self.units>>]

PerfScaleThroughputs(self, typical_value, throughput, values) ==
  CASE throughput.kind = "Bytes" ->
         [values |-> [i \in DOMAIN values |-> Quot(values[i], throughput.n)],
          label |-> <<"events", "/byte">>]
    [] throughput.kind = "Elements" ->
         [values |-> [i \in DOMAIN values |-> Quot(values[i], throughput.n)],
          label |-> <<"events", "/element">>]

PerfScaleForMachines(self, values) ==
  [values |-> values, label |-> <<"events">>]

\* ------------------------------------------------------------ the driver
Running == panic = "none" /\ pc # "done"

\* Faulty variant of Advance: the hardware counters are run before the
\* reallocation count.
Advance_HardwareBeforeReallocs(k) ==
  CASE k = 2 -> pc' = "construct" /\ mi' = FirstHw
    [] k = LastStep -> pc' = "construct" /\ mi' = 3
    [] k = 3 -> pc' = "summary" /\ mi' = k
    [] OTHER -> pc' = "construct" /\ mi' = k + 1

\* Faulty variant of Advance: the final summary follows the first
\* measurement.
Advance_SummaryEarly(k) == pc' = "summary" /\ mi' = k

\* Control leaves step k of main(): on to the next measurement, or to the
\* final summary after the last.
Advance(k) ==
  IF k = LastStep
    THEN pc' = "summary" /\ mi' = k
    ELSE pc' = "construct" /\ mi' = k + 1

ResetHookHistory ==
  /\ lastCall' = NoCall
  /\ lastEnd' = NoEnd
  /\ nStart' = 0
  /\ nEnd' = 0
  /\ ivEvents' = 0
  /\ intermediate' = NoValue

\* Step k has its instance (or None): its groups are called with it, in
\* order, and the instance is dropped when the last one returns.
Bind(k, made) ==
  /\ attempts' = [attempts EXCEPT ![k] = @ + 1]
  /\ constructed' =
       [constructed EXCEPT ![k] = IF made = NoInst THEN "unavailable" ELSE "ok"]
  /\ ResetHookHistory
  /\ IF made # NoInst /\ Resolves(k)
       THEN /\ inst' = made
            /\ pc' = "group"
            /\ mi' = k
       ELSE /\ inst' = NoInst
            /\ Advance(k)
  /\ gi' = 1
  /\ ti' = 1
  /\ iters' = 0

\* let wall_time = WallTime;
ConstructWallTime ==
  /\ Running
  /\ pc = "construct"
  /\ DriverTable[mi].kind = "WallTime"
  /\ Bind(mi, WallTimeNew)
  /\ UNCHANGED aloneVars
  /\ UNCHANGED << supported, stats, nEvents, panic, invoked, summaries,
                  failedOp >>

\* let allocs = Alloc::allocations(&GLOBAL); / Alloc::reallocations(&GLOBAL)
ConstructAlloc ==
  /\ Running
  /\ pc = "construct"
  /\ DriverTable[mi].kind = "Alloc"
  /\ Bind(mi, AllocNew(stats, DriverTable[mi].sel))
  /\ UNCHANGED aloneVars
  /\ UNCHANGED << supported, stats, nEvents, panic, invoked, summaries,
                  failedOp >>

\* if cfg!(all(target_arch="x86_64", target_os="linux")) is false: no
\* hardware counter is constructed.
CfgSkip ==
  /\ Running
  /\ pc = "construct"
  /\ mi = FirstHw
  /\ ~supported
  /\ pc' = "summary"
  /\ UNCHANGED aloneVars
  /\ UNCHANGED << mi, gi, ti, iters, supported, stats, inst, intermediate,
                  nEvents, panic, constructed, attempts, invoked, summaries,
                  lastCall, lastEnd, nStart, nEnd, ivEvents, failedOp >>

\* if let Some(c) = Perf::hardware(units, event) { groups } : the OS binds
\* the counter or refuses.
ConstructPerf ==
  /\ Running
  /\ pc = "construct"
  /\ DriverTable[mi].kind = "Perf"
  /\ supported
  /\ \E bound \in BOOLEAN : Bind(mi, PerfNew(DriverTable[mi].sel, bound))
  /\ UNCHANGED aloneVars
  /\ UNCHANGED << supported, stats, nEvents, panic, invoked, summaries,
                  failedOp >>

\* $group(name, measure): the group builds its Criterion and turns to its
\* first target.
GroupCall ==
  /\ Running
  /\ pc = "group"
  /\ pc' = "target"
  /\ ti' = 1
  /\ UNCHANGED aloneVars
  /\ UNCHANGED << mi, gi, iters, supported, stats, inst, intermediate,
                  nEvents, panic, constructed, attempts, invoked, summaries,
                  lastCall, lastEnd, nStart, nEnd, ivEvents, failedOp >>

\* Faulty variant of Invocation: every measurement passes the name of the
\* first.
Invocation_FirstName(k, g, t) ==
  [name |-> DriverTable[1].name, step |-> k, group |-> g, target |-> t]

\* Faulty variant of Invocation: a group calls its targets last to first.
Invocation_LastTargetFirst(k, g, t) ==
  [name |-> DriverTable[k].name, step |-> k, group |-> g,
   target |-> NumTargets + 1 - t]

\* $target(measure_name, &mut criterion)
Invocation(k, g, t) == [name |-> DriverTable[k].name, step |-> k, group |-> g,
                        target |-> t]

TargetCall ==
  /\ Running
  /\ pc = "target"
  /\ invoked' = Append(invoked, Invocation(mi, gi, ti))
  /\ pc' = "running"
  /\ iters' = 0
  /\ UNCHANGED aloneVars
  /\ UNCHANGED << mi, gi, ti, supported, stats, inst, intermediate, nEvents,
                  panic, constructed, attempts, summaries, lastCall, lastEnd,
                  nStart, nEnd, ivEvents, failedOp >>

\* The engine opens an interval of the target's routine: measurement.start().
\* from: the positions of the engine at which it does so.
StartFrom(from) ==
  /\ Running
  /\ pc \in from
  /\ iters < MaxIters
  /\ \E fail \in StartFails(inst) :
       LET r == MeasurementStart(inst, stats, fail)
       IN  /\ inst' = r.self
           /\ panic' = r.panic
           /\ failedOp' = fail
           /\ intermediate' = r.ret
           /\ lastCall' = [hook |-> "start", ret |-> r.ret, ops |-> r.ops,
                           arg |-> NoValue, events |-> 0]
           /\ pc' = IF r.panic = "none" THEN "open" ELSE pc
  /\ nStart' = nStart + 1
  /\ ivEvents' = 0
  /\ UNCHANGED aloneVars
  /\ UNCHANGED << mi, gi, ti, iters, supported, stats, nEvents, constructed,
                  attempts, invoked, summaries, lastEnd, nEnd >>

\* Faulty variant of Start: an interval is opened while one is open.
Start_WhileOpen == StartFrom({"running", "open"})

\* Bencher::iter: start, the routine, end; the next interval is opened only
\* after the last one was closed.
Start == StartFrom({"running"})

\* The engine closes the interval: measurement.end(intermediate).
End ==
  /\ Running
  /\ pc = "open"
  /\ \E fail \in EndFails(inst) :
       LET r == MeasurementEnd(inst, intermediate, stats, fail)
       IN  /\ inst' = r.self
           /\ panic' = r.panic
           /\ failedOp' = fail
           /\ lastCall' = [hook |-> "end", ret |-> r.ret, ops |-> r.ops,
                           arg |-> intermediate, events |-> ivEvents]
           /\ lastEnd' = IF r.panic = "none"
                           THEN [ret |-> r.ret, allocations |-> 0,
                                 deallocations |-> 0]
                           ELSE lastEnd
           /\ pc' = IF r.panic = "none" THEN "running" ELSE pc
           /\ iters' = IF r.panic = "none" THEN iters + 1 ELSE iters
  /\ nEnd' = nEnd + 1
  /\ intermediate' = NoValue
  /\ ivEvents' = 0
  /\ UNCHANGED aloneVars
  /\ UNCHANGED << mi, gi, ti, supported, stats, nEvents, constructed,
                  attempts, invoked, summaries, nStart >>

\* Faulty variant of TargetReturn: the measurement outlives its last group.
TargetReturn_KeepsInstance ==
  /\ Running
  /\ pc = "running"
  /\ iters' = 0
  /\ IF ti < NumTargets
       THEN /\ ti' = ti + 1
            /\ pc' = "target"
            /\ UNCHANGED << mi, gi, inst, intermediate, lastCall, lastEnd,
                            nStart, nEnd, ivEvents >>
       ELSE IF gi < groups
         THEN /\ gi' = gi + 1
              /\ ti' = 1
              /\ pc' = "group"
              /\ UNCHANGED << mi, inst, intermediate, lastCall, lastEnd,
                              nStart, nEnd, ivEvents >>
         ELSE /\ gi' = 1
              /\ ti' = 1
              /\ inst' = inst
              /\ ResetHookHistory
              /\ Advance(mi)
  /\ UNCHANGED aloneVars
  /\ UNCHANGED << supported, stats, nEvents, panic, constructed, attempts,
                  invoked, summaries, failedOp >>

\* The target returns: the group calls its next target; after the last
\* target the group returns and main() calls the next group; after the last
\* group the measurement is dropped and main() goes on.
TargetReturn ==
  /\ Running
  /\ pc = "running"
  /\ iters' = 0
  /\ IF ti < NumTargets
       THEN /\ ti' = ti + 1
            /\ pc' = "target"
            /\ UNCHANGED << mi, gi, inst, intermediate, lastCall, lastEnd,
                            nStart, nEnd, ivEvents >>
       ELSE IF gi < groups
         THEN /\ gi' = gi + 1
              /\ ti' = 1
              /\ pc' = "group"
              /\ UNCHANGED << mi, inst, intermediate, lastCall, lastEnd,
                              nStart, nEnd, ivEvents >>
         ELSE /\ gi' = 1
              /\ ti' = 1
              /\ inst' = NoInst
              /\ ResetHookHistory
              /\ Advance(mi)
  /\ UNCHANGED aloneVars
  /\ UNCHANGED << supported, stats, nEvents, panic, constructed, attempts,
                  invoked, summaries, failedOp >>

\* Criterion::default().configure_from_args().final_summary()
FinalSummary ==
  /\ Running
  /\ pc = "summary"
  /\ summaries' = summaries + 1
  /\ pc' = "done"
  /\ UNCHANGED aloneVars
  /\ UNCHANGED << mi, gi, ti, iters, supported, stats, inst, intermediate,
                  nEvents, panic, constructed, attempts, invoked, lastCall,
                  lastEnd, nStart, nEnd, ivEvents, failedOp >>

\* ----------------------------------------------------------- environment
\* The process allocates, frees or reallocates once: the instrumented
\* global allocator counts it.
AllocEvent ==
  /\ Running
  /\ nEvents < MaxEvents
  /\ \E kind \in EventKinds :
       /\ stats' = [stats EXCEPT ![kind] = @ + 1]
       /\ ivEvents' =
            IF pc = "open" /\ inst.kind = "Alloc"
               /\ inst.sub_measure = SubMeasureOf(kind)
              THEN ivEvents + 1 ELSE ivEvents
       /\ lastEnd' =
            IF lastEnd.ret # NoValue /\ kind \in {"allocations", "deallocations"}
              THEN [lastEnd EXCEPT ![kind] = @ + 1] ELSE lastEnd
  /\ nEvents' = nEvents + 1
  /\ UNCHANGED aloneVars
  /\ UNCHANGED << pc, mi, gi, ti, iters, supported, inst, intermediate, panic,
                  constructed, attempts, invoked, summaries, lastCall, nStart,
                  nEnd, failedOp >>

\* One hardware event of the kind the live counter is bound to occurs in the
\* process.
Tick ==
  /\ Running
  /\ nEvents < MaxEvents
  /\ inst.kind = "Perf"
  /\ inst' = [inst EXCEPT !.counter = CounterTick(inst.counter)]
  /\ ivEvents' = IF pc = "open" THEN ivEvents + 1 ELSE ivEvents
  /\ nEvents' = nEvents + 1
  /\ UNCHANGED aloneVars
  /\ UNCHANGED << pc, mi, gi, ti, iters, supported, stats, intermediate, panic,
                  constructed, attempts, invoked, summaries, lastCall, lastEnd,
                  nStart, nEnd, failedOp >>

Next ==
  \/ ConstructWallTime
  \/ ConstructAlloc
  \/ CfgSkip
  \/ ConstructPerf
  \/ GroupCall
  \/ TargetCall
  \/ Start
  \/ End
  \/ TargetReturn
  \/ FinalSummary
  \/ AllocEvent
  \/ Tick

Spec == Init /\ [][Next]_vars

\* main() alone, with any number of groups.
NextGroups ==
  \/ ConstructWallTime
  \/ ConstructAlloc
  \/ CfgSkip
  \/ ConstructPerf
  \/ GroupCall
  \/ TargetCall
  \/ Start
  \/ End
  \/ TargetReturn
  \/ FinalSummary

SpecGroups == InitGroups /\ [][NextGroups]_vars

\* main() is straight-line code of one thread: while it has a statement left
\* to run and has not panicked, it runs it.
SpecGroupsFair == SpecGroups /\ WF_vars(NextGroups)


\* ================================================================ claims
\* Helpers over the history.
InvokedUnder(k) == {j \in DOMAIN invoked : invoked[j].step = k}

\* Every target of every group was invoked under step k before position j
\* of the history.
CompleteBefore(k, j) ==
  \A g \in Groups, t \in Targets :
    \E i \in DOMAIN invoked : i < j /\ invoked[i] = Invocation(k, g, t)

StartStep == nStart' = nStart + 1
EndStep == nEnd' = nEnd + 1

\* Every target of every group has been invoked under step k.
Complete(k) ==
  \A g \in Groups, t \in Targets :
    \E i \in DOMAIN invoked : invoked[i] = Invocation(k, g, t)

\* C1: the measurements run in the fixed order wall-clock time, allocation
\* count, reallocation count, hardware counters.  In every state the
\* invocations made so far are in the order of the steps of main(); once a
\* target has been invoked under one measurement, every earlier wall-clock
\* / allocation / reallocation measurement has run all targets of all
\* groups, and every earlier hardware counter has run all of them or none
\* (it was skipped); and no invocation under a hardware counter is followed
\* by one under a wall-clock, allocation or reallocation measurement.
C1_MeasurementOrder ==
  /\ \A j \in 1..(Len(invoked) - 1) :
       /\ invoked[j].step <= invoked[j + 1].step
       /\ invoked[j].step \in HwSteps => invoked[j + 1].step \in HwSteps
  /\ \A k \in Steps :
       (invoked # << >> /\ k < invoked[Len(invoked)].step) =>
         \/ Complete(k)
         \/ k \in HwSteps /\ InvokedUnder(k) = {}

\* C1 witness: a target has been invoked under a hardware counter that
\* follows a skipped one, after the three software measurements ran.
C1_Witness ==
  /\ \E j \in DOMAIN invoked : invoked[j].name = "cache_misses"
  /\ constructed[4] = "unavailable"
  /\ InvokedUnder(3) # {}

\* C2 (as claimed): when the OS refuses a counter, the run goes on and
\* ends with the summary, no target ran under a refused counter, and every
\* measurement whose construction succeeded ran all targets of all groups.
C2_SkipOnlyUnavailable ==
  (pc = "done" /\ \E k \in Steps : constructed[k] = "unavailable") =>
    /\ summaries = 1
    /\ \A k \in Steps :
         /\ constructed[k] = "unavailable" => InvokedUnder(k) = {}
         /\ constructed[k] = "ok" => CompleteBefore(k, Len(invoked) + 1)

\* C3 (as claimed): at the end of a run each target was invoked exactly
\* once per group under every measurement that was constructed, never
\* under another, so the invocations number targets x groups x available
\* measurements.
C3_InvocationCount ==
  pc = "done" =>
    LET available == {k \in Steps : constructed[k] = "ok"}
    IN  /\ \A k \in Steps, g \in Groups, t \in Targets :
             Cardinality({j \in DOMAIN invoked :
                            invoked[j] = Invocation(k, g, t)})
               = IF k \in available THEN 1 ELSE 0
        /\ Len(invoked) = NumTargets * groups * Cardinality(available)

\* C4: Perf::end stops the counter, reads it, resets it, each once and in
\* that order, and returns the count it read: the count the counter held
\* when end was entered, which the reset then clears.
C4_EndStopReadReset ==
  [][(EndStep /\ inst.kind = "Perf" /\ failedOp' = "none") =>
       /\ lastCall'.ops = <<"stop", "read", "reset">>
       /\ lastCall'.ret = inst.counter.count
       /\ inst'.counter = [enabled |-> FALSE, count |-> 0]]_vars

\* C4 witness: an end on a counter returned a count other than zero.
C4_Witness ==
  /\ inst.kind = "Perf"
  /\ lastCall.hook = "end"
  /\ lastCall.ret > 0
  /\ panic = "none"

\* C5: when the OS fails start, stop, read or reset of a bound counter the
\* run ends at that call: the call made that operation last and returned
\* nothing, the process panicked, and no step of the run follows.
C5_CounterFailureIsFatal ==
  /\ [](failedOp # "none" =>
          /\ panic # "none"
          /\ lastCall.ret = NoValue
          /\ lastCall.ops # << >>
          /\ lastCall.ops[Len(lastCall.ops)] = failedOp)
  /\ [][failedOp = "none"]_vars

\* C5 witness: the reset of an end failed after targets had run.
C5_Witness ==
  /\ failedOp = "reset"
  /\ Len(invoked) > 1


\* The values an Intermediate can take within the bounds.
Intermediates == 0..MaxEvents

\* The allocator counter a sub-measure stands for.
FieldOf(sub_measure) ==
  CASE sub_measure = "Allocations" -> "allocations"
    [] sub_measure = "Deallocations" -> "deallocations"
    [] sub_measure = "Reallocations" -> "reallocations"

\* C6 (as claimed): on an allocation or hardware-counter instance, an end
\* that closes an interval in which no relevant event occurred returns 0
\* and does not fail (unless the OS fails a counter operation), whatever
\* happened before the interval's start.
C6_EmptyIntervalIsZero ==
  (/\ inst.kind \in {"Alloc", "Perf"}
   /\ lastCall.hook = "end"
   /\ lastCall.events = 0
   /\ failedOp = "none") =>
     /\ panic = "none"
     /\ lastCall.ret = 0

\* C7: on an Alloc instance start and end both return the allocator's
\* cumulative count of the selected sub-measure at the time of the call,
\* less that count at the baseline, which is the allocator's state at
\* construction; end returns this whatever Intermediate it is given.
C7_AllocReadsCumulative ==
  /\ [][(inst.kind # "Alloc" /\ inst'.kind = "Alloc") =>
          /\ inst'.region.initial_stats = stats
          /\ inst'.sub_measure = DriverTable[mi].sel]_vars
  /\ [][(inst.kind = "Alloc" /\ inst'.kind = "Alloc") =>
          inst'.region = inst.region]_vars
  /\ [][((StartStep \/ EndStep) /\ inst.kind = "Alloc") =>
          lastCall'.ret = stats[FieldOf(inst.sub_measure)]
                          - inst.region.initial_stats[FieldOf(inst.sub_measure)]]_vars
  /\ [](inst.kind = "Alloc" =>
          \A i \in Intermediates :
            AllocEnd(inst, i, stats)
              = stats[FieldOf(inst.sub_measure)]
                - inst.region.initial_stats[FieldOf(inst.sub_measure)])

\* C7 witness: an end on an Alloc instance whose baseline is not zero
\* returned a count other than zero, given an Intermediate other than zero.
C7_Witness ==
  /\ inst.kind = "Alloc"
  /\ inst.region.initial_stats # ZeroStats
  /\ lastCall.hook = "end"
  /\ lastCall.arg > 0
  /\ lastCall.ret > 0

\* C8: on the Allocations instance the values of successive ends do not
\* decrease, and when N allocations and no deallocation occurred since the
\* previous end, the value exceeds the previous one by at least N.
C8_EndsNonDecreasing ==
  [][(/\ EndStep
      /\ inst.kind = "Alloc"
      /\ inst.sub_measure = "Allocations"
      /\ lastEnd.ret # NoValue) =>
        /\ lastCall'.ret >= lastEnd.ret
        /\ lastEnd.deallocations = 0 =>
             lastCall'.ret - lastEnd.ret >= lastEnd.allocations]_vars

\* C8 witness: the second end on the Allocations instance, after an
\* allocation in each of the two intervals.
C8_Witness ==
  /\ inst.kind = "Alloc"
  /\ inst.sub_measure = "Allocations"
  /\ nEnd = 2
  /\ lastCall.hook = "end"
  /\ lastCall.events = 1
  /\ lastCall.ret = 2

\* C9: Perf::start enables the counter, leaves its count alone and returns
\* the placeholder 0; the value end returns is the count of the counter,
\* whatever Intermediate it is given.
C9_StartArmsReturnsZero ==
  /\ [][(StartStep /\ inst.kind = "Perf" /\ failedOp' = "none") =>
          /\ lastCall'.ret = 0
          /\ lastCall'.ops = <<"start">>
          /\ inst'.counter = [enabled |-> TRUE, count |-> inst.counter.count]]_vars
  /\ [](inst.kind = "Perf" =>
          \A i \in Intermediates :
            PerfEnd(inst, i, "none").ret = inst.counter.count)

\* C9 witness: an interval is open on a counter that start enabled, and
\* the counter has counted since.
C9_Witness ==
  /\ inst.kind = "Perf"
  /\ pc = "open"
  /\ lastCall.hook = "start"
  /\ lastCall.ret = 0
  /\ inst.counter.count > 0

SubMeasures == {"Allocations", "Deallocations", "Reallocations"}
Units == {DriverTable[k].sel : k \in HwSteps}

MeasurementAdd(self, v1, v2) ==
  IF self.kind = "Alloc" THEN AllocAdd(self, v1, v2) ELSE PerfAdd(self, v1, v2)

MeasurementZero(self) ==
  IF self.kind = "Alloc" THEN AllocZero(self) ELSE PerfZero(self)

MeasurementToF64(self, bits) ==
  IF self.kind = "Alloc" THEN AllocToF64(self, bits) ELSE PerfToF64(self, bits)

FormatValue(self, value) ==
  IF self.kind = "Alloc"
    THEN AllocFormatValue(self, value) ELSE PerfFormatValue(self, value)

FormatThroughput(self, throughput, value) ==
  IF self.kind = "Alloc"
    THEN AllocFormatThroughput(self, throughput, value)
    ELSE PerfFormatThroughput(self, throughput, value)

ScaleValues(self, typical_value, values) ==
  IF self.kind = "Alloc"
    THEN AllocScaleValues(self, typical_value, values)
    ELSE PerfScaleValues(self, typical_value, values)

ScaleThroughputs(self, typical_value, throughput, values) ==
  IF self.kind = "Alloc"
    THEN AllocScaleThroughputs(self, typical_value, throughput, values)
    ELSE PerfScaleThroughputs(self, typical_value, throughput, values)

ScaleForMachines(self, values) ==
  IF self.kind = "Alloc"
    THEN AllocScaleForMachines(self, values)
    ELSE PerfScaleForMachines(self, values)

\* What a call on the instance leaves alone: main() is not running.
driverVars == << pc, mi, gi, ti, iters, supported, stats, inst, intermediate,
                 nEvents, panic, constructed, attempts, invoked, summaries,
                 lastCall, lastEnd, nStart, nEnd, ivEvents, failedOp, groups >>

\* The instance exists, no call on it has panicked, and the last call has
\* returned to its caller.
FnLive == fself # NoInst /\ fcall.panic = "none" /\ fcall.op = "none"

\* The record of a call: made and at are the numbers of allocator events
\* the process had seen when the instance was made and at the call.
Call(op) == [op |-> op, made |-> fcall.made, at |-> nEvents, panic |-> "none"]

\* Alloc::allocations / Alloc::dellocations / Alloc::reallocations
FnNewAlloc ==
  /\ fself = NoInst
  /\ \E sub_measure \in SubMeasures : fself' = AllocNew(stats, sub_measure)
  /\ fcall' = [NoFn EXCEPT !.made = nEvents, !.at = nEvents]
  /\ UNCHANGED driverVars

\* Perf::hardware: the instance is made only where the platform has the
\* counters and the OS binds one.
FnNewPerf ==
  /\ fself = NoInst
  /\ supported
  /\ \E units \in Units, bound \in BOOLEAN :
       /\ fself' = PerfNew(units, bound)
       /\ fcall' = [NoFn EXCEPT !.made = nEvents, !.at = nEvents]
  /\ UNCHANGED driverVars

FnStart ==
  /\ FnLive
  /\ \E fail \in StartFails(fself) :
       LET r == MeasurementStart(fself, stats, fail)
       IN  /\ fself' = r.self
           /\ fcall' = [Call("start") EXCEPT !.panic = r.panic]
                         @@ [out |-> r.ret]
  /\ UNCHANGED driverVars

FnEnd ==
  /\ FnLive
  /\ \E i \in Intermediates, fail \in EndFails(fself) :
       LET r == MeasurementEnd(fself, i, stats, fail)
       IN  /\ fself' = r.self
           /\ fcall' = [Call("end") EXCEPT !.panic = r.panic]
                         @@ [out |-> r.ret]
  /\ UNCHANGED driverVars

\* add(a, b), add(b, a), add(add(a, b), c), add(a, add(b, c)), add(a, zero())
FnAdd ==
  /\ FnLive
  /\ \E a \in Values, b \in Values, c \in Values :
       fcall' = Call("add") @@
         [a |-> a, b |-> b, c |-> c,
          ab |-> MeasurementAdd(fself, a, b),
          ba |-> MeasurementAdd(fself, b, a),
          ab_c |-> MeasurementAdd(fself, MeasurementAdd(fself, a, b), c),
          a_bc |-> MeasurementAdd(fself, a, MeasurementAdd(fself, b, c)),
          a_zero |-> MeasurementAdd(fself, a, MeasurementZero(fself))]
  /\ UNCHANGED << driverVars, fself >>

FnZero ==
  /\ FnLive
  /\ fcall' = Call("zero") @@ [out |-> MeasurementZero(fself)]
  /\ UNCHANGED << driverVars, fself >>

FnToF64 ==
  /\ FnLive
  /\ \E bits \in BitLengths :
       fcall' = Call("to_f64") @@
         [value |-> bits, out |-> MeasurementToF64(fself, bits)]
  /\ UNCHANGED << driverVars, fself >>

FnFormatValue ==
  /\ FnLive
  /\ \E value \in Values :
       fcall' = Call("format_value") @@
         [value |-> value, out |-> FormatValue(fself, value)]
  /\ UNCHANGED << driverVars, fself >>

FnFormatThroughput ==
  /\ FnLive
  /\ \E throughput \in Throughputs, value \in Values :
       fcall' = Call("format_throughput") @@
         [throughput |-> throughput, value |-> value,
          out |-> FormatThroughput(fself, throughput, value)]
  /\ UNCHANGED << driverVars, fself >>

FnScaleValues ==
  /\ FnLive
  /\ \E values \in Batches :
       fcall' = Call("scale_values") @@
         [values |-> values, out |-> ScaleValues(fself, 0, values)]
  /\ UNCHANGED << driverVars, fself >>

FnScaleThroughputs ==
  /\ FnLive
  /\ \E throughput \in Throughputs, values \in Batches :
       fcall' = Call("scale_throughputs") @@
         [throughput |-> throughput, values |-> values,
          out |-> ScaleThroughputs(fself, 0, throughput, values)]
  /\ UNCHANGED << driverVars, fself >>

FnScaleForMachines ==
  /\ FnLive
  /\ \E values \in Batches :
       fcall' = Call("scale_for_machines") @@
         [values |-> values, out |-> ScaleForMachines(fself, values)]
  /\ UNCHANGED << driverVars, fself >>

\* The caller takes the result of the call.
FnReturn ==
  /\ fself # NoInst
  /\ fcall.panic = "none"
  /\ fcall.op # "none"
  /\ fcall' = [NoFn EXCEPT !.made = fcall.made, !.at = fcall.at]
  /\ UNCHANGED << driverVars, fself >>

\* One hardware event of the kind the instance's counter is bound to.
FnTick ==
  /\ FnLive
  /\ fself.kind = "Perf"
  /\ nEvents < MaxEvents
  /\ fself' = [fself EXCEPT !.counter = CounterTick(fself.counter)]
  /\ nEvents' = nEvents + 1
  /\ UNCHANGED << pc, mi, gi, ti, iters, supported, stats, inst, intermediate,
                  panic, constructed, attempts, invoked, summaries, lastCall,
                  lastEnd, nStart, nEnd, ivEvents, failedOp, groups, fcall >>

NextFn ==
  \/ FnNewAlloc
  \/ FnNewPerf
  \/ FnStart
  \/ FnEnd
  \/ FnAdd
  \/ FnZero
  \/ FnToF64
  \/ FnFormatValue
  \/ FnFormatThroughput
  \/ FnScaleValues
  \/ FnScaleThroughputs
  \/ FnScaleForMachines
  \/ FnReturn
  \/ FnTick
  \/ AllocEvent

SpecFn == Init /\ [][NextFn]_vars

\* ------------------------------------------------------------------ C11
\* C11: for an Alloc and for a Perf instance and all values a, b, c of the
\* bounded range, add(a, b) = add(b, a), add(add(a, b), c) =
\* add(a, add(b, c)), add(a, zero()) = a, and add(a, b) is the sum a + b.
C11_AddLaws ==
  fcall.op = "add" =>
    /\ fcall.ab = fcall.ba
    /\ fcall.ab_c = fcall.a_bc
    /\ fcall.a_zero = fcall.a
    /\ fcall.ab = fcall.a + fcall.b

C11_Witness ==
  /\ fcall.op = "add"
  /\ fself.kind = "Alloc"
  /\ fcall.a = 1 /\ fcall.b = 2 /\ fcall.c = 1
  /\ fcall.ab_c = 4

\* ------------------------------------------------------------------ C12
\* C12: scale_throughputs of the Alloc and of the Perf formatter, given
\* Bytes(B), replaces every element v of the batch by v / B and returns a
\* label ending in "/byte"; given Elements(E), it replaces every v by v / E
\* and returns a label ending in "/element"; the batch keeps its length and
\* the elements their places.
C12_ScaleThroughputs ==
  fcall.op = "scale_throughputs" =>
    LET n == fcall.throughput.n
        before == fcall.values
        after == fcall.out.values
        label == fcall.out.label
    IN  /\ Len(after) = Len(before)
        /\ \A i \in 1..Len(before) :
             IF n = 0
               THEN after[i].den = 0
               ELSE /\ after[i].den > 0
                    /\ after[i].num * n = before[i] * after[i].den
        /\ fcall.throughput.kind = "Bytes" => label[Len(label)] = "/byte"
        /\ fcall.throughput.kind = "Elements" => label[Len(label)] = "/element"

C12_Witness ==
  /\ fcall.op = "scale_throughputs"
  /\ fself.kind = "Alloc"
  /\ fcall.throughput = [kind |-> "Elements", n |-> 2]
  /\ fcall.values = <<2, 1>>
  /\ fcall.out.values = << [num |-> 1, den |-> 1], [num |-> 1, den |-> 2] >>

\* ------------------------------------------------------------------ C13
\* C13: for a Perf formatter, every unscaled label (format_value,
\* scale_values, scale_for_machines) is the unit label given at
\* construction, and every throughput-scaled label (format_throughput,
\* scale_throughputs) is that unit label with "/byte" or "/element" appended.
C13_PerfLabels ==
  (fself # NoInst /\ fself.kind = "Perf") =>
    /\ fcall.op \in {"format_value", "scale_values", "scale_for_machines"} =>
         fcall.out.label = <<fself.units>>
    /\ fcall.op \in {"format_throughput", "scale_throughputs"} =>
         fcall.out.label =
           <<fself.units,
             IF fcall.throughput.kind = "Bytes" THEN "/byte" ELSE "/element">>

\* ------------------------------------------------------------------ C14
\* C14, as stated: Alloc::to_f64(v) is strictly greater than v cast to
\* floating point for every count v.
C14_AlwaysAbove ==
  (fself # NoInst /\ fself.kind = "Alloc" /\ fcall.op = "to_f64") =>
    fcall.out.above

\* C14, amended: Alloc::to_f64(v) is strictly greater than v cast to floating
\* point for every count v below 2^40 (bit length at most 40), strictly
\* positive for the count 0, and equal to v cast to floating point from 2^40
\* upward.
C14_AboveBelowTwoPow40 ==
  (fself # NoInst /\ fself.kind = "Alloc" /\ fcall.op = "to_f64") =>
    /\ fcall.out.bits = fcall.value
    /\ fcall.value <= 40 => fcall.out.above
    /\ fcall.value > 40 => ~fcall.out.above

C14_Witness ==
  /\ fself # NoInst /\ fself.kind = "Alloc"
  /\ fcall.op = "to_f64"
  /\ fcall.value = 40
  /\ fcall.out.above

\* ------------------------------------------------------------------ C15
\* C15: an Alloc instance of any of the three sub-measures, read by start or
\* by end with no allocator event since it was made, reports 0.
C15_FreshRegionReadsZero ==
  (fself # NoInst /\ fself.kind = "Alloc" /\ fcall.op \in {"start", "end"}
     /\ fcall.at = fcall.made) =>
    fcall.out = 0

C15_Witness ==
  /\ fself # NoInst /\ fself.kind = "Alloc"
  /\ fself.sub_measure = "Deallocations"
  /\ fcall.op = "end"
  /\ fcall.at = fcall.made
  /\ fself.region.initial_stats.deallocations = MaxEvents
  /\ fcall.out = 0

\* ------------------------------------------------------------------ C16
\* C16: within one measurement the groups run in the order they were passed
\* to bench_main! and, inside a group, the targets in the order given to
\* bench_group!: a target is invoked only when no target is running, it is
\* the first target of the first group if it is the first invoked under its
\* measurement, and otherwise the next target of the same group, or the first
\* target of the next group when the last invoked was the last target of its
\* group; a measurement is left only after the last target of the last group.
C16_GroupAndTargetOrder ==
  [][invoked' # invoked =>
       LET e == invoked'[Len(invoked')]
           p == invoked[Len(invoked)]
       IN  /\ pc = "target"
           /\ invoked' = Append(invoked, e)
           /\ IF invoked # << >> /\ p.step = e.step
                THEN \/ e.group = p.group /\ e.target = p.target + 1
                     \/ /\ e.group = p.group + 1
                        /\ p.target = NumTargets
                        /\ e.target = 1
                ELSE /\ e.group = 1
                     /\ e.target = 1
                     /\ invoked # << >> =>
                          p.group = groups /\ p.target = NumTargets]_vars

C16_Witness ==
  /\ groups = MaxGroups
  /\ Len(invoked) = groups * NumTargets + 1
  /\ invoked[groups * NumTargets].group = groups
  /\ invoked[groups * NumTargets].target = NumTargets
  /\ pc = "running"

\* ------------------------------------------------------------------ C17
\* C17: a run of main() that does not abort triggers the final summary
\* exactly once: it comes to the summary, the summary has been triggered
\* once when main() is done and never before.  When it is triggered no
\* measurement is live, every step of main() has been taken (the hardware
\* counters where the platform has them) and every measurement that invoked
\* a target has invoked them all; no target is invoked after it.
C17_SummaryOnceAtEnd ==
  /\ [](summaries = IF pc = "done" THEN 1 ELSE 0)
  /\ [](summaries >= 1 =>
          /\ inst = NoInst
          /\ \A k \in Steps :
               /\ (k \notin HwSteps \/ supported) => attempts[k] = 1
               /\ InvokedUnder(k) # {} => Complete(k))
  /\ [][summaries >= 1 => invoked' = invoked]_vars
  /\ <>(pc = "done" \/ panic # "none")

C17_Witness ==
  /\ pc = "done"
  /\ summaries = 1
  /\ supported
  /\ groups = MaxGroups
  /\ Complete(LastStep)

\* ------------------------------------------------------------------ C18
\* The measurement main() builds at step k.
BuiltAt(k, self) ==
  /\ self.kind = DriverTable[k].kind
  /\ self.kind = "Alloc" => self.sub_measure = DriverTable[k].sel
  /\ self.kind = "Perf" => self.units = DriverTable[k].sel

\* C18: every target invocation receives the display name of the live
\* measurement: the name main() gives the step that built the live instance;
\* the invocations made before under the same measurement received the same
\* name, those made under another measurement a different one.
C18_DisplayNames ==
  [][invoked' # invoked =>
       LET e == invoked'[Len(invoked')]
       IN  /\ \E k \in Steps :
                BuiltAt(k, inst) /\ e.step = k /\ e.name = DriverTable[k].name
           /\ \A i \in DOMAIN invoked :
                (invoked[i].name = e.name) <=> (invoked[i].step = e.step)]_vars

C18_Witness ==
  /\ invoked # << >>
  /\ invoked[Len(invoked)].name = "branch_misses"
  /\ invoked[Len(invoked)].group = MaxGroups
  /\ inst.kind = "Perf"
  /\ inst.units = "branch misses"

\* ------------------------------------------------------------------ C19
\* C19: no operation of an Alloc instance changes its region baseline or its
\* sub-measure selector, and no call changes the allocator's counters: start
\* and end only read them.  The baseline stays the counters of the moment
\* the instance was made, which add up to the events seen until then.
C19_AllocFrame ==
  /\ [][(fself # NoInst /\ fself.kind = "Alloc") =>
          /\ fself' # NoInst /\ fself'.kind = "Alloc"
          /\ fself'.region = fself.region
          /\ fself'.sub_measure = fself.sub_measure
          /\ fcall' # fcall => stats' = stats]_vars
  /\ []((fself # NoInst /\ fself.kind = "Alloc") =>
          fself.region.initial_stats.allocations
            + fself.region.initial_stats.deallocations
            + fself.region.initial_stats.reallocations = fcall.made)

C19_Witness ==
  /\ fself # NoInst /\ fself.kind = "Alloc"
  /\ fcall.op = "end"
  /\ fcall.made = 1
  /\ fcall.at = MaxEvents
  /\ fcall.out = fcall.at - fcall.made

\* ------------------------------------------------------------------ C20
\* The operations of the counter a hook may invoke.
HookOps(hook) ==
  CASE hook = "start" -> {"start"}
    [] hook = "end" -> {"stop", "read", "reset"}
    [] OTHER -> {}

\* C20: nothing is retried.  The construction of each hardware counter is
\* attempted at most once, and once in a run that reaches the summary on a
\* platform that has the counters; a hook invokes each operation of the
\* counter at most once (start in start; stop, read, reset in end; the hooks
\* of an interval alternate); the operation that failed is the last one the
\* hook invoked, and after the panic nothing more is attempted.
C20_NoRetries ==
  /\ [](/\ \A k \in Steps : attempts[k] <= 1
        /\ \A k \in HwSteps :
             (pc \in {"summary", "done"} /\ supported) => attempts[k] = 1
        /\ \A i \in DOMAIN lastCall.ops :
             /\ lastCall.ops[i] \in HookOps(lastCall.hook)
             /\ \A j \in DOMAIN lastCall.ops :
                  lastCall.ops[i] = lastCall.ops[j] => i = j
        /\ panic # "none" =>
             /\ lastCall.ops # << >>
             /\ lastCall.ops[Len(lastCall.ops)] = failedOp)
  /\ [][panic # "none" =>
          UNCHANGED << attempts, lastCall, nStart, nEnd, inst, invoked >>]_vars

C20_Witness ==
  /\ panic = "Could not read perf counter"
  /\ failedOp = "read"
  /\ lastCall.hook = "end"
  /\ lastCall.ops = <<"stop", "read">>
  /\ attempts[FirstHw] = 1

\* ------------------------------------------------------------------ C21
\* C21: while a Perf instance is live and no interval is open (after its
\* construction and after every end that returned), its counter is disabled
\* and its count is zero; the value an end returns is the number of events
\* that occurred while that interval was open.
C21_IdleCounterIsClear ==
  (inst.kind = "Perf" /\ panic = "none") =>
    /\ pc # "open" => inst.counter = [enabled |-> FALSE, count |-> 0]
    /\ pc = "open" => inst.counter.enabled /\ inst.counter.count = ivEvents
    /\ lastCall.hook = "end" => lastCall.ret = lastCall.events

C21_Witness ==
  /\ inst.kind = "Perf"
  /\ panic = "none"
  /\ pc = "running"
  /\ nEnd = 2
  /\ nEvents = 2
  /\ lastCall.hook = "end"
  /\ lastCall.ret = 1
  /\ inst.counter = [enabled |-> FALSE, count |-> 0]

\* ------------------------------------------------------------------ C22
\* C22: main() holds at most one measurement at a time, the one its current
\* step built, so at most one hardware counter is bound; that counter is
\* enabled only inside an interval of its own measurement.  A hardware
\* counter is constructed only when no measurement is live and every earlier
\* measurement that invoked a target has invoked them all, and a target is
\* invoked only with the instance built by the step it is invoked under.
C22_OneCounterAtATime ==
  /\ [](/\ inst # NoInst =>
             /\ BuiltAt(mi, inst)
             /\ pc \in {"group", "target", "running", "open"}
             /\ constructed[mi] = "ok"
        /\ (inst.kind = "Perf" /\ inst.counter.enabled) =>
             /\ mi \in HwSteps
             /\ pc = "open" \/ panic # "none")
  /\ [][\A k \in HwSteps :
          attempts'[k] # attempts[k] =>
            /\ inst = NoInst
            /\ pc = "construct"
            /\ mi = k
            /\ \A j \in 1..(k - 1) : InvokedUnder(j) # {} => Complete(j)]_vars
  /\ [][invoked' # invoked =>
          BuiltAt(invoked'[Len(invoked')].step, inst)]_vars

C22_Witness ==
  /\ inst.kind = "Perf"
  /\ mi = LastStep
  /\ pc = "open"
  /\ inst.counter.enabled
  /\ constructed[FirstHw] = "ok"
  /\ constructed[LastStep - 1] = "ok"
  /\ Complete(FirstHw)

====
